---- MODULE Spec2Model ----
(***************************************************************************)
(* Model of move_collection.py: moving one row of the table                *)
(* AgLibraryPublishedCollection under another row (a Publish service),     *)
(* with the Arguments severity filter that gates its messages.             *)
(*                                                                         *)
(* A nullable column value or Python object is the empty tuple when it is  *)
(* NULL / None and a one-element tuple holding the value otherwise.  A text*)
(* is a tuple of one-character strings, so that split('/') and the f-string*)
(* are computed character by character.                                    *)
(***************************************************************************)
EXTENDS Integers, Sequences, FiniteSets, TLC

VARIABLES
    fs,             \* the paths at which a file exists
    db,             \* committed rows of AgLibraryPublishedCollection
    arguments,      \* the Arguments object of the running invocation
    pc,             \* position of move_collection
    conn,           \* "unbound" | "open" | "closed": the local name conn
    pending,        \* rows as seen inside conn's open transaction, or Null
    collection,     \* collections[0] once fetched, else Null
    service,        \* services[0] once fetched, else Null
    new_genealogy,  \* the computed genealogy (nullable text)
    raised,         \* the exception caught by the invocation, "" when none
    ret,            \* return value of move_collection, Null until it returns
    logged,         \* every log_message call of the invocation, in order
    output,         \* the messages actually printed, in order
    dbAtStart,      \* db when the invocation started
    dbAtFirst,      \* db before the previous identical invocation, or Null
    runs,           \* invocations started so far
    extWrites       \* external writes during the running invocation

vars == <<fs, db, arguments, pc, conn, pending, collection, service,
          new_genealogy, raised, ret, logged, output, dbAtStart, dbAtFirst,
          runs, extWrites>>

-----------------------------------------------------------------------------
(* Bounds *)

NumRows == 3
MaxRuns == 2
MaxExternalWrites == 1

-----------------------------------------------------------------------------
(* Values *)

Null == <<>>
Some(v) == <<v>>
IsNull(v) == v = <<>>
Val(v) == v[1]

Slash == "/"
NoneText == <<"N", "o", "n", "e">>

Ids == 1..NumRows
Names == {"Trips", "Archive"}
CatalogPath == "catalog.lrcat"
MissingPath == "missing.lrcat"

\* Arguments.QUIET_LEVELS.get(key, 0)
QUIET_LEVELS_get(key) ==
    CASE key = "info" -> 1
      [] key = "warn" -> 2
      [] key = "error" -> 3
      [] OTHER -> 0

Levels == {"info", "warn", "error"}
QuietChoices == {"none", "info", "warn", "error"}

\* Arguments.__init__
NewArguments(dry_run, quiet, db_path, collection_name, target_publish_service) ==
    [dry_run |-> dry_run,
     quiet_level |-> QUIET_LEVELS_get(quiet),
     db_path |-> db_path,
     collection_name |-> collection_name,
     target_publish_service |-> target_publish_service]

should_output_inclusive(a, level) == QUIET_LEVELS_get(level) >= a.quiet_level

\* Arguments.should_output
should_output(a, level) == QUIET_LEVELS_get(level) > a.quiet_level

Stream(level) == IF level \in {"warn", "error"} THEN "stderr" ELSE "stdout"

\* log_message applied to the printed output so far
log_message(out, message, a, level) ==
    IF should_output(a, level)
    THEN Append(out, [stream |-> Stream(level), level |-> level, message |-> message])
    ELSE out

RECURSIVE LogAll(_, _, _, _)
LogAll(out, messages, a, level) ==
    IF messages = <<>> THEN out
    ELSE LogAll(log_message(out, Head(messages), a, level), Tail(messages), a, level)

Calls(messages, level) ==
    [i \in 1..Len(messages) |-> [level |-> level, message |-> messages[i]]]

-----------------------------------------------------------------------------
(* Text *)

\* str.split('/') of a text: the tuple of its segments
RECURSIVE Split(_)
Split(s) ==
    IF \A i \in 1..Len(s) : s[i] # Slash
    THEN <<s>>
    ELSE LET k == CHOOSE i \in 1..Len(s) :
                     s[i] = Slash /\ \A j \in 1..(i - 1) : s[j] # Slash
         IN  <<SubSeq(s, 1, k - 1)>> \o Split(SubSeq(s, k + 1, Len(s)))

\* Python truth value of a nullable text
Truthy(t) == ~IsNull(t) /\ Val(t) # <<>>

\* f"{x}" of a nullable text
Format(t) == IF IsNull(t) THEN NoneText ELSE Val(t)

GenealogyParts(collection_genealogy) ==
    IF Truthy(collection_genealogy) THEN Split(Val(collection_genealogy)) ELSE <<>>

NewGenealogyWholePath(collection_genealogy, service_genealogy) ==
    IF Truthy(collection_genealogy)
    THEN Some(Format(service_genealogy) \o <<Slash>> \o Val(collection_genealogy))
    ELSE service_genealogy

\* "Construct new genealogy"
NewGenealogy(collection_genealogy, service_genealogy) ==
    LET genealogy_parts == GenealogyParts(collection_genealogy)
    IN  IF genealogy_parts # <<>>
        THEN Some(Format(service_genealogy) \o <<Slash>> \o genealogy_parts[Len(genealogy_parts)])
        ELSE service_genealogy

-----------------------------------------------------------------------------
(* Table *)

Row(id, name, isDefault, parent, genealogy) ==
    [id_local |-> id, name |-> name, isDefaultCollection |-> isDefault,
     parent |-> parent, genealogy |-> genealogy]

\* Shapes of the rows a catalog starts with.  nested: the row is a child of
\* the row with the next lower id_local (a root when there is none).
RowShapes ==
    { [name |-> "Trips",   isDefault |-> Some(0), nested |-> FALSE,
       genealogy |-> Some(<<"R", "/", "T">>)],
      [name |-> "Archive", isDefault |-> Null,    nested |-> FALSE,
       genealogy |-> Some(<<"R", "/", "A">>)],
      [name |-> "Trips",   isDefault |-> Some(1), nested |-> FALSE,
       genealogy |-> Some(<<"D">>)],
      [name |-> "Archive", isDefault |-> Some(0), nested |-> TRUE,
       genealogy |-> Null],
      [name |-> "Trips",   isDefault |-> Null,    nested |-> TRUE,
       genealogy |-> Some(<<>>)],
      [name |-> "Family",  isDefault |-> Some(0), nested |-> FALSE,
       genealogy |-> Some(<<"F">>)] }

InitialRow(id, shape) ==
    Row(id, shape.name, shape.isDefault,
        IF shape.nested /\ id > 1 THEN Some(id - 1) ELSE Null,
        shape.genealogy)

InitialTables == { {InitialRow(i, f[i]) : i \in Ids} : f \in [Ids -> RowShapes] }

\* SELECT ... FROM AgLibraryPublishedCollection WHERE name = ?
SelectByName(table, name) == {r \in table : r.name = name}

UpdateAllRows(table, service_id, genealogy, collection_id) ==
    { [r EXCEPT !.parent = Some(service_id), !.genealogy = genealogy] : r \in table }

\* UPDATE ... SET parent = ?, genealogy = ? WHERE id_local = ?
UpdateRow(table, service_id, genealogy, collection_id) ==
    { IF r.id_local = collection_id
      THEN [r EXCEPT !.parent = Some(service_id), !.genealogy = genealogy]
      ELSE r : r \in table }

\* The ids reached from id by following parent one or more times
RECURSIVE Reach(_, _, _)
Reach(table, frontier, seen) ==
    LET parents == {Val(r.parent) : r \in {x \in table : x.id_local \in frontier
                                                       /\ ~IsNull(x.parent)}}
        new == parents \ seen
    IN  IF new = {} THEN seen ELSE Reach(table, new, seen \cup new)

Ancestors(table, id) == Reach(table, {id}, {})

-----------------------------------------------------------------------------
(* move_collection *)

Init ==
    /\ fs = {CatalogPath}
    /\ db \in InitialTables
    /\ arguments = NewArguments(FALSE, "none", Null, "", "")
    /\ pc = "idle"
    /\ conn = "unbound"
    /\ pending = Null
    /\ collection = Null
    /\ service = Null
    /\ new_genealogy = Null
    /\ raised = ""
    /\ ret = Null
    /\ logged = <<>>
    /\ output = <<>>
    /\ dbAtStart = db
    /\ dbAtFirst = Null
    /\ runs = 0
    /\ extWrites = 0

\* A call of move_collection starts with fresh locals.
Enter(a) ==
    /\ runs < MaxRuns
    /\ arguments' = a
    /\ pc' = "open"
    /\ conn' = "unbound"
    /\ pending' = Null
    /\ collection' = Null
    /\ service' = Null
    /\ new_genealogy' = Null
    /\ raised' = ""
    /\ ret' = Null
    /\ logged' = <<>>
    /\ output' = <<>>
    /\ dbAtStart' = db
    /\ runs' = runs + 1
    /\ extWrites' = 0
    /\ UNCHANGED <<fs, db>>

\* main(): an invocation with arguments from the command line
Invoke ==
    \E dry_run \in BOOLEAN, quiet \in QuietChoices,
       db_path \in {Null, Some(CatalogPath), Some(MissingPath)},
       collection_name \in Names, target_publish_service \in Names :
        /\ pc = "idle"
        /\ Enter(NewArguments(dry_run, quiet, db_path,
                              collection_name, target_publish_service))
        /\ dbAtFirst' = Null

\* main() run again with the command line of the invocation that just
\* returned 0
InvokeAgain ==
    /\ pc = "done"
    /\ ret = Some(0)
    /\ Enter(arguments)
    /\ dbAtFirst' = IF IsNull(dbAtFirst) THEN Some(dbAtStart) ELSE dbAtFirst

NotFoundMessage == "Error: Database file does not exist."
CollectionCountMessage == "Error: Found n records for collection, expected exactly 1."
DefaultMessage == "Error: Collection is marked as a default collection."
ServiceCountMessage == "Error: Found n records for Publish service, expected exactly 1."
StorageErrorMessage == "Error: sqlite3.Error"
UnexpectedErrorMessage == "Unexpected error: TypeError"

\* except (sqlite3.Error, FileNotFoundError, ValueError) / except Exception:
\* log at error level, return 1
Except(exception, message) ==
    /\ raised' = exception
    /\ logged' = logged \o Calls(<<message>>, "error")
    /\ output' = log_message(output, message, arguments, "error")
    /\ ret' = Some(1)
    /\ pc' = "finally"

\* os.path.exists(db_path), then sqlite3.connect(db_path)
Open ==
    /\ pc = "open"
    /\ IF IsNull(arguments.db_path)
       THEN /\ Except("TypeError", UnexpectedErrorMessage)
            /\ UNCHANGED <<fs, conn>>
       ELSE IF Val(arguments.db_path) \notin fs
       THEN /\ Except("FileNotFoundError", NotFoundMessage)
            /\ UNCHANGED <<fs, conn>>
       ELSE /\ conn' = "open"
            /\ pc' = "fetchCollection"
            /\ UNCHANGED <<fs, raised, logged, output, ret>>
    /\ UNCHANGED <<db, arguments, pending, collection, service, new_genealogy,
                   dbAtStart, dbAtFirst, runs, extWrites>>

FetchCollectionDefaultUnchecked ==
    /\ pc = "fetchCollection"
    /\ LET collections == SelectByName(db, arguments.collection_name)
       IN  IF Cardinality(collections) # 1
           THEN /\ Except("ValueError", CollectionCountMessage)
                /\ UNCHANGED collection
           ELSE LET row == CHOOSE r \in collections : TRUE
                IN  /\ collection' = Some([collection_id |-> row.id_local,
                                           is_default |-> row.isDefaultCollection,
                                           collection_genealogy |-> row.genealogy])
                    /\ pc' = "fetchService"
                    /\ UNCHANGED <<raised, logged, output, ret>>
    /\ UNCHANGED <<fs, db, arguments, conn, pending, service, new_genealogy,
                   dbAtStart, dbAtFirst, runs, extWrites>>

\* "Fetch collection record", the count check and the default check
FetchCollection ==
    /\ pc = "fetchCollection"
    /\ LET collections == SelectByName(db, arguments.collection_name)
       IN  IF Cardinality(collections) # 1
           THEN /\ Except("ValueError", CollectionCountMessage)
                /\ UNCHANGED collection
           ELSE LET row == CHOOSE r \in collections : TRUE
                IN  /\ collection' = Some([collection_id |-> row.id_local,
                                           is_default |-> row.isDefaultCollection,
                                           collection_genealogy |-> row.genealogy])
                    /\ IF ~IsNull(row.isDefaultCollection) /\ Val(row.isDefaultCollection) = 1
                       THEN Except("ValueError", DefaultMessage)
                       ELSE /\ pc' = "fetchService"
                            /\ UNCHANGED <<raised, logged, output, ret>>
    /\ UNCHANGED <<fs, db, arguments, conn, pending, service, new_genealogy,
                   dbAtStart, dbAtFirst, runs, extWrites>>

PlanMessages == <<"Preparing to move collection", "Current parent",
                  "New parent", "New genealogy">>

PlanIgnoringDryRun(row) ==
    /\ service' = Some([service_id |-> row.id_local,
                        service_genealogy |-> row.genealogy])
    /\ new_genealogy' = NewGenealogy(Val(collection).collection_genealogy, row.genealogy)
    /\ logged' = logged \o Calls(PlanMessages, "info")
    /\ output' = LogAll(output, PlanMessages, arguments, "info")
    /\ pc' = "update"
    /\ UNCHANGED <<raised, ret>>

\* The rest of the try block once services[0] is known, up to the UPDATE
Plan(row) ==
    LET genealogy == NewGenealogy(Val(collection).collection_genealogy, row.genealogy)
        planned == LogAll(output, PlanMessages, arguments, "info")
    IN  /\ service' = Some([service_id |-> row.id_local,
                            service_genealogy |-> row.genealogy])
        /\ new_genealogy' = genealogy
        /\ raised' = raised
        /\ IF arguments.dry_run
           THEN /\ logged' = logged \o Calls(PlanMessages \o <<"Dry run: No changes made.">>, "info")
                /\ output' = log_message(planned, "Dry run: No changes made.", arguments, "info")
                /\ ret' = Some(0)
                /\ pc' = "finally"
           ELSE /\ logged' = logged \o Calls(PlanMessages, "info")
                /\ output' = planned
                /\ ret' = ret
                /\ pc' = "update"

FetchServiceAtLeastOne ==
    /\ pc = "fetchService"
    /\ LET services == SelectByName(db, arguments.target_publish_service)
       IN  IF Cardinality(services) < 1
           THEN /\ Except("ValueError", ServiceCountMessage)
                /\ UNCHANGED <<service, new_genealogy>>
           ELSE Plan(CHOOSE r \in services : TRUE)
    /\ UNCHANGED <<fs, db, arguments, conn, pending, collection,
                   dbAtStart, dbAtFirst, runs, extWrites>>

FetchServiceNotBelowItself ==
    /\ pc = "fetchService"
    /\ LET services == SelectByName(db, arguments.target_publish_service)
       IN  IF Cardinality(services) # 1
              \/ \E r \in services :
                    Val(collection).collection_id
                        \in {r.id_local} \cup Ancestors(db, r.id_local)
           THEN /\ Except("ValueError", ServiceCountMessage)
                /\ UNCHANGED <<service, new_genealogy>>
           ELSE Plan(CHOOSE r \in services : TRUE)
    /\ UNCHANGED <<fs, db, arguments, conn, pending, collection,
                   dbAtStart, dbAtFirst, runs, extWrites>>

\* "Fetch target Publish service record", the count check, the new
\* genealogy, the planning messages and the dry-run branch
FetchService ==
    /\ pc = "fetchService"
    /\ LET services == SelectByName(db, arguments.target_publish_service)
       IN  IF Cardinality(services) # 1
           THEN /\ Except("ValueError", ServiceCountMessage)
                /\ UNCHANGED <<service, new_genealogy>>
           ELSE Plan(CHOOSE r \in services : TRUE)
    /\ UNCHANGED <<fs, db, arguments, conn, pending, collection,
                   dbAtStart, dbAtFirst, runs, extWrites>>

UpdateEveryRow ==
    /\ pc = "update"
    /\ pending' = Some(UpdateAllRows(db, Val(service).service_id, new_genealogy,
                                     Val(collection).collection_id))
    /\ pc' = "commit"
    /\ UNCHANGED <<fs, db, arguments, conn, collection, service, new_genealogy,
                   raised, ret, logged, output, dbAtStart, dbAtFirst, runs,
                   extWrites>>

UpdateFromFreshRead ==
    /\ pc = "update"
    /\ LET services == {r \in db : r.id_local = Val(service).service_id}
           collections == {r \in db : r.id_local = Val(collection).collection_id}
       IN  pending' = Some(
               IF services = {} \/ collections = {} THEN db
               ELSE UpdateRow(db, Val(service).service_id,
                        NewGenealogy((CHOOSE r \in collections : TRUE).genealogy,
                                     (CHOOSE r \in services : TRUE).genealogy),
                        Val(collection).collection_id))
    /\ pc' = "commit"
    /\ UNCHANGED <<fs, db, arguments, conn, collection, service, new_genealogy,
                   raised, ret, logged, output, dbAtStart, dbAtFirst, runs,
                   extWrites>>

\* cursor.execute(UPDATE ...): the statement opens conn's transaction
Update ==
    /\ pc = "update"
    /\ pending' = Some(UpdateRow(db, Val(service).service_id, new_genealogy,
                                 Val(collection).collection_id))
    /\ pc' = "commit"
    /\ UNCHANGED <<fs, db, arguments, conn, collection, service, new_genealogy,
                   raised, ret, logged, output, dbAtStart, dbAtFirst, runs,
                   extWrites>>

\* conn.commit(), the success message and return 0
Commit ==
    /\ pc = "commit"
    /\ db' = Val(pending)
    /\ pending' = Null
    /\ logged' = logged \o Calls(<<"Changes applied successfully.">>, "info")
    /\ output' = log_message(output, "Changes applied successfully.", arguments, "info")
    /\ ret' = Some(0)
    /\ pc' = "finally"
    /\ UNCHANGED <<fs, arguments, conn, collection, service, new_genealogy,
                   raised, dbAtStart, dbAtFirst, runs, extWrites>>

\* sqlite3.Error raised by connect, by a SELECT, by the UPDATE or by commit
StorageError ==
    /\ \/ pc \in {"fetchCollection", "fetchService", "update", "commit"}
       \/ /\ pc = "open"
          /\ ~IsNull(arguments.db_path)
          /\ Val(arguments.db_path) \in fs
    /\ Except("sqlite3.Error", StorageErrorMessage)
    /\ UNCHANGED <<fs, db, arguments, conn, pending, collection, service,
                   new_genealogy, dbAtStart, dbAtFirst, runs, extWrites>>

FinallyWithoutClose ==
    /\ pc = "finally"
    /\ pc' = "done"
    /\ UNCHANGED <<fs, db, arguments, conn, pending, collection, service,
                   new_genealogy, raised, ret, logged, output, dbAtStart,
                   dbAtFirst, runs, extWrites>>

\* finally: if 'conn' in locals(): conn.close().  Closing discards a
\* transaction that was not committed.
Finally ==
    /\ pc = "finally"
    /\ conn' = IF conn = "open" THEN "closed" ELSE conn
    /\ pending' = Null
    /\ pc' = "done"
    /\ UNCHANGED <<fs, db, arguments, collection, service, new_genealogy,
                   raised, ret, logged, output, dbAtStart, dbAtFirst, runs,
                   extWrites>>

\* What a write of another process leaves of row r
Changed(kind, r) ==
    CASE kind = "genealogy" -> {[r EXCEPT !.genealogy = Some(<<"E", "/", "F">>)]}
      [] kind = "default" -> {[r EXCEPT !.isDefaultCollection = Some(1)]}
      [] kind = "rename" -> {[r EXCEPT !.name = "Renamed"]}
      [] kind = "delete" -> {}

\* Another process writes the catalog after this invocation has read both
\* rows and before its UPDATE takes the write lock.
ExternalWriter(kind) ==
    /\ pc = "update"
    /\ extWrites < MaxExternalWrites
    /\ \E r \in db :
          /\ r.id_local \in {Val(collection).collection_id, Val(service).service_id}
          /\ db' = (db \ {r}) \cup Changed(kind, r)
    /\ extWrites' = extWrites + 1
    /\ UNCHANGED <<fs, arguments, pc, conn, pending, collection, service,
                   new_genealogy, raised, ret, logged, output, dbAtStart,
                   dbAtFirst, runs>>

ExternalSetGenealogy == ExternalWriter("genealogy")
ExternalSetDefault == ExternalWriter("default")
ExternalRename == ExternalWriter("rename")
ExternalDelete == ExternalWriter("delete")

Next ==
    \/ Invoke
    \/ InvokeAgain
    \/ Open
    \/ FetchCollection
    \/ FetchService
    \/ Update
    \/ Commit
    \/ StorageError
    \/ Finally

Spec == Init /\ [][Next]_vars

NextRace ==
    \/ Next
    \/ ExternalSetGenealogy
    \/ ExternalSetDefault
    \/ ExternalRename
    \/ ExternalDelete

SpecRace == Init /\ [][NextRace]_vars

-----------------------------------------------------------------------------
(* Vocabulary of the properties *)

Done == pc = "done"
Running == pc # "idle"

CollectionsAtStart == SelectByName(dbAtStart, arguments.collection_name)
ServicesAtStart == SelectByName(dbAtStart, arguments.target_publish_service)
TheCollection == CHOOSE r \in CollectionsAtStart : TRUE
TheService == CHOOSE r \in ServicesAtStart : TRUE
FlagSet(r) == r.isDefaultCollection = Some(1)

\* The database path names a file that exists
FileGiven == ~IsNull(arguments.db_path) /\ Val(arguments.db_path) \in fs
NoStorageError == raised # "sqlite3.Error"

ValidAtStart ==
    /\ Cardinality(CollectionsAtStart) = 1
    /\ ~FlagSet(TheCollection)
    /\ Cardinality(ServicesAtStart) = 1

\* The rows of db that carry the id_local of the collection row
Moved == {r \in db : r.id_local = TheCollection.id_local}

\* The text after the last '/' of a text (the whole text when it has none)
LastSegment(s) ==
    LET slashes == {i \in 1..Len(s) : s[i] = Slash}
        last == IF slashes = {} THEN 0
                ELSE CHOOSE i \in slashes : \A j \in slashes : j <= i
    IN  SubSeq(s, last + 1, Len(s))

ErrorCalls == SelectSeq(logged, LAMBDA m : m.level = "error")

-----------------------------------------------------------------------------
(* C1 *)

\* C1: when the collection name resolves to one non-default row and the
\* target name to one row, a move that is not a dry run returns 0 and leaves
\* the collection row with parent = the target's id_local and genealogy = the
\* target's genealogy, followed by '/' and the last segment of the previous
\* genealogy unless that was null or empty.
C1_MoveResult ==
    (Done /\ ~arguments.dry_run /\ FileGiven /\ NoStorageError /\ ValidAtStart)
    => /\ ret = Some(0)
       /\ \A r \in Moved :
            /\ r.parent = Some(TheService.id_local)
            /\ IF Truthy(TheCollection.genealogy)
               THEN /\ ~IsNull(TheService.genealogy)
                    /\ r.genealogy = Some(Val(TheService.genealogy) \o <<Slash>>
                                          \o LastSegment(Val(TheCollection.genealogy)))
               ELSE r.genealogy = TheService.genealogy

\* The same, for targets whose genealogy is a text
C1_MoveResultUnderText ==
    (Done /\ ~arguments.dry_run /\ FileGiven /\ NoStorageError /\ ValidAtStart
          /\ ~IsNull(TheService.genealogy))
    => C1_MoveResult

-----------------------------------------------------------------------------
(* C2 *)

SameButParentAndGenealogy(r, o) ==
    /\ r.id_local = o.id_local
    /\ r.name = o.name
    /\ r.isDefaultCollection = o.isDefaultCollection

\* C2: an invocation creates and deletes no row, changes no row other than
\* the resolved collection row, and on that row changes nothing but parent
\* and genealogy.
C2_Frame ==
    /\ {r.id_local : r \in db} = {o.id_local : o \in dbAtStart}
    /\ Cardinality(db) = Cardinality(dbAtStart)
    /\ \A r \in db : \E o \in dbAtStart :
         /\ SameButParentAndGenealogy(r, o)
         /\ r # o => /\ Cardinality(CollectionsAtStart) = 1
                     /\ o = TheCollection
    /\ Cardinality(db \ dbAtStart) <= 1

C2_Witness ==
    /\ Done
    /\ ret = Some(0)
    /\ Cardinality(db \ dbAtStart) = 1
    /\ Cardinality(db) = NumRows

-----------------------------------------------------------------------------
(* C3 *)

\* C3: a dry run never executes the UPDATE or the commit and leaves every row
\* as it was; when validation passes it returns 0.
C3_DryRun ==
    (Running /\ arguments.dry_run)
    => /\ pc \notin {"update", "commit"}
       /\ IsNull(pending)
       /\ db = dbAtStart
       /\ (Done /\ FileGiven /\ NoStorageError /\ ValidAtStart) => ret = Some(0)

C3_Witness ==
    /\ Done
    /\ arguments.dry_run
    /\ ValidAtStart
    /\ ret = Some(0)
    /\ ~IsNull(new_genealogy)
    /\ db = dbAtStart

-----------------------------------------------------------------------------
(* C4 *)

\* The message of the first check that fails, in the order file exists,
\* collection count, default flag, target count; "" when none fails
FirstFailingCheck ==
    IF ~FileGiven THEN NotFoundMessage
    ELSE IF Cardinality(CollectionsAtStart) # 1 THEN CollectionCountMessage
    ELSE IF FlagSet(TheCollection) THEN DefaultMessage
    ELSE IF Cardinality(ServicesAtStart) # 1 THEN ServiceCountMessage
    ELSE ""

\* C4: when the collection name matches zero or several rows, or it matches
\* one row and the target name matches zero or several, the invocation
\* writes nothing and returns 1, dry run or not; the checks run in the order
\* file exists, collection count, default flag, target count, and only the
\* first failing one is reported.
C4_ValidationFailure ==
    (Running /\ ~IsNull(arguments.db_path))
    => /\ (\/ Cardinality(CollectionsAtStart) # 1
           \/ Cardinality(ServicesAtStart) # 1)
          => /\ db = dbAtStart
             /\ IsNull(pending)
             /\ pc \notin {"update", "commit"}
             /\ Done => ret = Some(1)
       /\ (Done /\ NoStorageError)
          => /\ Len(ErrorCalls) = (IF FirstFailingCheck = "" THEN 0 ELSE 1)
             /\ \A i \in 1..Len(ErrorCalls) : ErrorCalls[i].message = FirstFailingCheck

C4_Witness ==
    /\ Done
    /\ FileGiven
    /\ Cardinality(CollectionsAtStart) = 1
    /\ ~FlagSet(TheCollection)
    /\ Cardinality(ServicesAtStart) > 1
    /\ ret = Some(1)
    /\ ErrorCalls = Calls(<<ServiceCountMessage>>, "error")

-----------------------------------------------------------------------------
(* C5 *)

\* C5: when the collection row has its default flag set the invocation
\* writes nothing and returns 1, dry run or not, and never looks the target
\* up; a collection row whose flag is null or 0 passes the default check.
C5_DefaultCollection ==
    Running
    => /\ (\E r \in CollectionsAtStart : FlagSet(r))
          => /\ db = dbAtStart
             /\ IsNull(pending)
             /\ IsNull(service)
             /\ pc \notin {"fetchService", "update", "commit"}
             /\ Done => ret = Some(1)
       /\ (/\ Cardinality(CollectionsAtStart) = 1
           /\ TheCollection.isDefaultCollection \in {Null, Some(0)})
          => \A i \in 1..Len(logged) : logged[i].message # DefaultMessage
       /\ (Done /\ FileGiven /\ NoStorageError /\ Cardinality(CollectionsAtStart) = 1)
          => (FlagSet(TheCollection) <=> ErrorCalls = Calls(<<DefaultMessage>>, "error"))

C5_Witness ==
    /\ Done
    /\ arguments.dry_run
    /\ Cardinality(CollectionsAtStart) = 1
    /\ FlagSet(TheCollection)
    /\ Cardinality(ServicesAtStart) = 1
    /\ ret = Some(1)
    /\ ErrorCalls = Calls(<<DefaultMessage>>, "error")

-----------------------------------------------------------------------------
(* C6 *)

\* The order none < info < warn < error
Severity(level) ==
    CASE level = "none" -> 0
      [] level = "info" -> 1
      [] level = "warn" -> 2
      [] level = "error" -> 3

\* The quiet threshold the running invocation was configured with
Quiet == CHOOSE q \in QuietChoices : NewArguments(arguments.dry_run, q,
             arguments.db_path, arguments.collection_name,
             arguments.target_publish_service) = arguments

Emitted(calls, quiet) ==
    LET kept == SelectSeq(calls, LAMBDA m : Severity(quiet) < Severity(m.level))
    IN  [i \in 1..Len(kept) |->
            [stream |-> IF kept[i].level = "info" THEN "stdout" ELSE "stderr",
             level |-> kept[i].level, message |-> kept[i].message]]

\* What the invocation returns when no storage error occurs
ReturnCode == IF IsNull(arguments.db_path) \/ FirstFailingCheck # "" THEN Some(1) ELSE Some(0)

\* C6: a message at level L is emitted iff the quiet threshold is strictly
\* less severe than L in none < info < warn < error: with quiet unset every
\* message is printed, with quiet=warn the info messages are dropped and the
\* error message is printed, with quiet=error nothing is printed; the return
\* code does not depend on the quiet threshold.
C6_SeverityFilter ==
    /\ \A q \in QuietChoices : \A level \in Levels :
         should_output(NewArguments(FALSE, q, Null, "", ""), level)
             <=> Severity(q) < Severity(level)
    /\ output = Emitted(logged, Quiet)
    /\ Quiet = "none" => Len(output) = Len(logged)
    /\ Quiet = "warn" => /\ \A i \in 1..Len(output) : output[i].level = "error"
                         /\ Len(output) = Len(ErrorCalls)
    /\ Quiet = "error" => output = <<>>
    /\ (Done /\ NoStorageError) => ret = ReturnCode

C6_Witness ==
    /\ Done
    /\ Quiet = "warn"
    /\ Len(logged) = 5
    /\ Len(output) = 1
    /\ output[1].stream = "stderr"
    /\ ret = Some(1)

-----------------------------------------------------------------------------
(* C7 *)

\* C7: when move_collection has returned no connection is open, whatever
\* the exit path; with a database path at which no file exists it returns 1
\* with the not-found error logged, opens no connection and creates no file.
C7_ConnectionReleased ==
    /\ Done => conn # "open"
    /\ (Running /\ arguments.db_path = Some(MissingPath))
       => /\ conn = "unbound"
          /\ MissingPath \notin fs
          /\ Done => /\ ret = Some(1)
                     /\ logged = Calls(<<NotFoundMessage>>, "error")

C7_Witness ==
    /\ Done
    /\ conn = "closed"
    /\ raised = "sqlite3.Error"
    /\ Len(logged) = 5

-----------------------------------------------------------------------------
(* C8 *)

\* C8: the reads and the UPDATE are not one atomic step.  Whatever another
\* writer does to the collection row or the target row between the reads and
\* the UPDATE, an invocation that passed validation and meets no storage
\* error returns 0 and has written, on the row with the collection's
\* id_local, the parent and the genealogy computed from the values it read.
C8_StaleWrite ==
    (Done /\ ~arguments.dry_run /\ FileGiven /\ NoStorageError /\ ValidAtStart)
    => /\ ret = Some(0)
       /\ collection = Some([collection_id |-> TheCollection.id_local,
                             is_default |-> TheCollection.isDefaultCollection,
                             collection_genealogy |-> TheCollection.genealogy])
       /\ service = Some([service_id |-> TheService.id_local,
                          service_genealogy |-> TheService.genealogy])
       /\ \A r \in Moved :
            /\ r.parent = Some(TheService.id_local)
            /\ r.genealogy = NewGenealogy(TheCollection.genealogy, TheService.genealogy)

\* The target was given another genealogy after it was read, and the
\* collection got the genealogy built from the old one.
C8_Witness ==
    /\ Done
    /\ ~arguments.dry_run
    /\ ValidAtStart
    /\ ret = Some(0)
    /\ extWrites = 1
    /\ TheService.id_local # TheCollection.id_local
    /\ Truthy(TheService.genealogy)
    /\ Truthy(TheCollection.genealogy)
    /\ \E t \in db : /\ t.id_local = TheService.id_local
                     /\ t.genealogy # TheService.genealogy
    /\ \E r \in Moved :
         r.genealogy = Some(Val(TheService.genealogy) \o <<Slash>>
                            \o LastSegment(Val(TheCollection.genealogy)))

-----------------------------------------------------------------------------
(* C9 *)

OnCycle(table, id) == id \in Ancestors(table, id)

TargetAtOrBelowCollection ==
    TheCollection.id_local
        \in {TheService.id_local} \cup Ancestors(dbAtStart, TheService.id_local)

\* C9: nothing checks that the target is neither the collection nor one of
\* its descendants.  When it is, a move that is not a dry run passes
\* validation, returns 0 and sets the collection's parent to the target,
\* which puts the collection on a cycle of the parent relation.
C9_Cycle ==
    (Done /\ ~arguments.dry_run /\ FileGiven /\ NoStorageError /\ ValidAtStart
          /\ TargetAtOrBelowCollection)
    => /\ ret = Some(0)
       /\ \A r \in Moved : r.parent = Some(TheService.id_local)
       /\ Moved # {}
       /\ OnCycle(db, TheCollection.id_local)
       /\ arguments.collection_name = arguments.target_publish_service
          => \A r \in Moved : r.parent = Some(r.id_local)

\* The target was a proper descendant of the collection.
C9_Witness ==
    /\ Done
    /\ ~arguments.dry_run
    /\ ValidAtStart
    /\ TheService.id_local # TheCollection.id_local
    /\ TargetAtOrBelowCollection
    /\ ret = Some(0)
    /\ OnCycle(db, TheCollection.id_local)
    /\ ~OnCycle(dbAtStart, TheCollection.id_local)

-----------------------------------------------------------------------------
(* C10 *)

CollectionsAtFirst == SelectByName(Val(dbAtFirst), arguments.collection_name)
ServicesAtFirst == SelectByName(Val(dbAtFirst), arguments.target_publish_service)

\* The invocation repeats a move of a non-default collection under another
\* row, both names resolving to one row before the first run.
RepeatedMove ==
    /\ Done
    /\ ~IsNull(dbAtFirst)
    /\ ~arguments.dry_run
    /\ NoStorageError
    /\ Cardinality(CollectionsAtFirst) = 1
    /\ Cardinality(ServicesAtFirst) = 1
    /\ arguments.collection_name # arguments.target_publish_service
    /\ \A r \in CollectionsAtFirst : ~FlagSet(r)

\* C10: the same move run again returns 0 and leaves the database as the
\* first run left it, also when the collection's original genealogy was null
\* or empty.
C10_Idempotent ==
    RepeatedMove => (ret = Some(0) /\ db = dbAtStart)

\* C10 as amended: the same, unless the collection's original genealogy was
\* null or empty and the target's genealogy is a non-empty text.
C10_IdempotentWithOwnSegment ==
    (/\ RepeatedMove
     /\ \A c \in CollectionsAtFirst : \A t \in ServicesAtFirst :
           Truthy(c.genealogy) \/ ~Truthy(t.genealogy))
    => (ret = Some(0) /\ db = dbAtStart)

C10_Witness ==
    /\ RepeatedMove
    /\ \A c \in CollectionsAtFirst : Truthy(c.genealogy)
    /\ ret = Some(0)
    /\ db = dbAtStart
    /\ db # Val(dbAtFirst)

====
